---- MODULE Spec2Model ----
(***************************************************************************)
(* Settlement and ledger core of the prediction-market platform:          *)
(* accounts, one price-target market, bets, the transaction ledger, the    *)
(* bet-placement views, resolve_target_market, the price-target monitor    *)
(* and the wallet handlers.                                                *)
(*                                                                         *)
(* Money is held in millionths of a dollar, the resolution of the          *)
(* DecimalField columns (decimal_places=6); every stored value is rounded  *)
(* half-even to that resolution, as Django does when it writes a Decimal.  *)
(* Stakes drawn by the model are whole dollars, so pool ratios are exact   *)
(* quotients of small integers.                                            *)
(***************************************************************************)
EXTENDS Integers, Sequences, FiniteSets, TLC

\* ------------------------------------------------------------------ bounds
NumUsers == 2
NumReq == 2
MaxBets == 2
MaxTime == 1
MaxPrice == 2
MaxConcurrent == 2
MaxEntries == 2
NumMarkets == 3
MaxCredited == 20
MaxLedger == 3
MaxWithdrawals == 1
MaxRefunds == 2

\* ------------------------------------------------------- program constants
Unit == 1000000
MinBet == 1
MinDeposit == 5
MaxDeposit == 10000
BalanceTolerance == 100
LevelUpBonus == 10
XpPerLevel == 600
MaxLevel == 8
WinXp == 50
BetXpCap == 50
QuickXp == 15
MaxOdds == 100
DefaultMinBet == 100
DefaultMaxBet == 1000000
WithdrawalFeePercent == 2
TestingMinAmount == Unit \div 100
TestingNetworkFee == Unit \div 100

\* ------------------------------------------------------- scenario constants
TargetPrice == 2
StartPrice == 1
ResolutionDate == 1
LargeDeposit == 1100
LargeStake == 200

Users == 1..NumUsers
ReqIds == 1..NumReq
Resolvers == {"monitor", "admin"}
Outcomes == {"UP", "DOWN", "FLAT"}
Prices == 0..MaxPrice
None == -1

VARIABLES balance, xp, level, market, bets, ledger, now, req, res, response, workers, stats, sweep

vars == <<balance, xp, level, market, bets, ledger, now, req, res, response, workers, stats, sweep>>
db == <<balance, xp, level, market, bets, ledger, stats>>

\* ----------------------------------------------------------- arithmetic
Min(a, b) == IF a < b THEN a ELSE b

\* n / d for n >= 0, d > 0, rounded half-even to an integer (Decimal quantize).
RoundHalfEven(n, d) ==
    LET q == n \div d
        r == n % d
    IN  IF 2 * r > d THEN q + 1
        ELSE IF 2 * r < d THEN q
        ELSE IF q % 2 = 0 THEN q ELSE q + 1

RECURSIVE SumSeq(_, _)
SumSeq(f, s) == IF s = <<>> THEN 0 ELSE f[Head(s)] + SumSeq(f, Tail(s))

Indices(s) == 1..Len(s)

\* ----------------------------------------------------------- Market odds
\* A probability or a multiplier is the exact ratio num/den.
up_probability(m) ==
    IF m.total_volume = 0 THEN <<33, 100>> ELSE <<m.up_volume \div Unit, m.total_volume \div Unit>>

down_probability(m) ==
    IF m.total_volume = 0 THEN <<33, 100>> ELSE <<m.down_volume \div Unit, m.total_volume \div Unit>>

flat_probability(m) ==
    IF m.total_volume = 0 THEN <<34, 100>> ELSE <<m.flat_volume \div Unit, m.total_volume \div Unit>>

\* 1 / prob without the cap.
OddsOfUncapped(prob, fallback) ==
    IF prob[1] = 0 THEN <<fallback, 1>> ELSE <<prob[2], prob[1]>>

\* min(1 / prob, 100), or the fallback when prob = 0.
OddsOf(prob, fallback) ==
    IF prob[1] = 0 THEN <<fallback, 1>>
    ELSE IF prob[2] > MaxOdds * prob[1] THEN <<MaxOdds, 1>>
    ELSE <<prob[2], prob[1]>>

up_odds(m) == OddsOf(up_probability(m), 2)
down_odds(m) == OddsOf(down_probability(m), 2)
flat_odds(m) == OddsOf(flat_probability(m), 3)

market_odds(m, outcome) ==
    IF outcome = "UP" THEN up_odds(m)
    ELSE IF outcome = "DOWN" THEN down_odds(m)
    ELSE flat_odds(m)

\* The predict-to-earn multipliers of place_bet, in hundredths.
Timeframes == {"1m", "2m", "3m"}
multipliers(timeframe, outcome) ==
    IF timeframe = "1m" THEN (IF outcome = "UP" THEN 185 ELSE IF outcome = "FLAT" THEN 450 ELSE 190)
    ELSE IF timeframe = "2m" THEN (IF outcome = "UP" THEN 195 ELSE IF outcome = "FLAT" THEN 320 ELSE 198)
    ELSE (IF outcome = "UP" THEN 210 ELSE IF outcome = "FLAT" THEN 280 ELSE 205)

\* odds_at_bet column: 4 decimal places.
StoredOdds(odds) == RoundHalfEven(odds[1] * 10000, odds[2])
\* potential_payout = amount * odds, 6 decimal places; the whole multiples of
\* the denominator are multiplied apart from the remainder.
PotentialPayout(amount, odds) ==
    LET rest == (amount % odds[2]) * odds[1]
        q == (amount \div odds[2]) * odds[1] + rest \div odds[2]
        r == rest % odds[2]
    IN  IF 2 * r > odds[2] THEN q + 1
        ELSE IF 2 * r < odds[2] THEN q
        ELSE IF q % 2 = 0 THEN q ELSE q + 1

\* ------------------------------------------------------------------ state
\* balance, xp, level : the CustomUser rows.  market : the Market row.
\* bets, ledger       : the Bet table and each user's Transaction rows, in
\*                      creation order.
\* now                : the clock.   req : bet requests in flight.
\* res                : resolve_target_market callers in flight.
\* response           : the answer of the request served by the last step:
\*                      "rejected" (a check failed), "failed" (an exception),
\*                      "success", or "none".
\* workers            : the number of processes serving handlers at once.
\* stats              : the UserStats rows (total_bets, won_bets), NoStats when
\*                      the user has none.
NoMarket == [status |-> "none"]
NoStats == [total_bets |-> None, won_bets |-> None]

IdleReq == [pc |-> "idle", view |-> "none", user |-> 0, outcome |-> "none", amount |-> 0,
            bet_type |-> "none", ubal |-> 0, uxp |-> 0, m |-> NoMarket, odds |-> <<0, 1>>,
            recipient |-> 0]

IdleRes == [pc |-> "idle", m |-> NoMarket, reached |-> FALSE, todo |-> <<>>, paid |-> 0,
            ubal |-> 0, uxp |-> 0, ulevel |-> 0]

\* min_bet and max_bet are held in cents (decimal_places=2).
NewMarket ==
    [market_type |-> "target", status |-> "active", winning_outcome |-> "none",
     resolved_at |-> None, round_end_price |-> None,
     total_volume |-> 0, up_volume |-> 0, down_volume |-> 0, flat_volume |-> 0,
     target_price |-> TargetPrice, highest_price_reached |-> StartPrice,
     resolution_date |-> ResolutionDate,
     min_bet |-> DefaultMinBet, max_bet |-> DefaultMaxBet]

\* An account's history before the model starts: one completed Stripe deposit,
\* and for a veteran a portfolio view that set xp = deposits // 10 * 5.
Profiles == {"small", "veteran"}
ProfileDeposit(p) == IF p = "veteran" THEN LargeDeposit * Unit ELSE MinDeposit * Unit
ProfileXp(p) == IF p = "veteran" THEN (LargeDeposit \div 10) * 5 ELSE 0

Entry(u, type, amount, before, after, status, bet, pid) ==
    [user |-> u, type |-> type, amount |-> amount, balance_before |-> before,
     balance_after |-> after, status |-> status, bet |-> bet, pid |-> pid, refunded |-> FALSE,
     external_id |-> 0, original_withdrawal |-> 0]

\* Transaction.objects.create: the table with one more row; each user's rows
\* are kept apart, in creation order.
AddEntry(e) == [ledger EXCEPT ![e.user] = Append(@, e)]

\* User 1 is the veteran; the others have the small deposit.
InitDb ==
    \E prof \in {[u \in Users |-> IF u = 1 THEN "veteran" ELSE "small"]} :
        /\ balance = [u \in Users |-> ProfileDeposit(prof[u])]
        /\ xp = [u \in Users |-> ProfileXp(prof[u])]
        /\ level = [u \in Users |-> 1]
        /\ market = NewMarket
        /\ bets = <<>>
        /\ ledger = [u \in Users |->
                       <<Entry(u, "deposit", ProfileDeposit(prof[u]), 0, ProfileDeposit(prof[u]),
                               "completed", 0, u)>>]
        /\ now = 0
        /\ req = [r \in ReqIds |-> IdleReq]
        /\ res = [r \in Resolvers |-> IdleRes]
        /\ response = "none"
        /\ stats = [u \in Users |-> IF prof[u] = "veteran"
                                     THEN [total_bets |-> 0, won_bets |-> 0] ELSE NoStats]

\* The monitor sweep over a table of several target markets: the rows, the
\* evaluated queryset still to process, and what the loop has done so far.
MarketIds == 1..NumMarkets
IdleSweep == [pc |-> "idle", rows |-> <<>>, todo |-> <<>>, loaded |-> {}, visited |-> {},
              raised |-> {}]

\* One worker process: handlers run one after the other.
Init == InitDb /\ workers = 1 /\ sweep = IdleSweep
\* MaxConcurrent worker processes.
InitConcurrent == InitDb /\ workers = MaxConcurrent /\ sweep = IdleSweep

\* ------------------------------------------------------------ bet placement
Bet(u, bet_type, outcome, amount, odds) ==
    [user |-> u, bet_type |-> bet_type, outcome |-> outcome, amount |-> amount,
     odds_at_bet |-> StoredOdds(odds), potential_payout |-> PotentialPayout(amount, odds),
     status |-> "active", actual_payout |-> None, resolved_at |-> None]

\* Only total_volume updated.
AddVolumeTotalOnly(m, outcome, amount) == [m EXCEPT !.total_volume = @ + amount]

\* market.total_volume += amount and the outcome's volume += amount, on the
\* view's own copy of the row.
AddVolume(m, outcome, amount) ==
    [m EXCEPT !.total_volume = @ + amount,
              !.up_volume = IF outcome = "UP" THEN @ + amount ELSE @,
              !.down_volume = IF outcome = "DOWN" THEN @ + amount ELSE @,
              !.flat_volume = IF outcome \notin {"UP", "DOWN"} THEN @ + amount ELSE @]

BetXp(amount) == Min(amount \div Unit, BetXpCap)

HasActiveQuickBet(u) ==
    \E i \in Indices(bets) :
        bets[i].user = u /\ bets[i].bet_type = "quick" /\ bets[i].status = "active"

\* The checks of place_bet before its atomic block; "ok" when all pass.
place_bet_check(u, outcome, amount, bet_type, timeframe) ==
    IF amount = 0 THEN "Missing required fields"
    ELSE IF outcome \notin Outcomes THEN "Invalid outcome"
    ELSE IF bet_type = "quick_predict" /\ amount # Unit THEN "Quick predict bets must be exactly $1.00"
    ELSE IF bet_type = "quick_predict" /\ timeframe \notin Timeframes THEN "Invalid predict timeframe"
    ELSE IF bet_type # "quick_predict" /\ amount < MinBet * Unit THEN "Minimum bet is $1.00"
    ELSE IF amount > balance[u] THEN "Insufficient balance"
    ELSE IF market.status # "active" THEN "Market not found"
    ELSE IF bet_type = "quick_predict" /\ HasActiveQuickBet(u) THEN "already active"
    ELSE "ok"

\* The checks of place_target_bet before its atomic block.
place_target_bet_check(u, prediction, amount) ==
    IF prediction \notin {"YES", "NO"} THEN "Invalid prediction"
    ELSE IF amount < MinBet * Unit THEN "Minimum bet is $1.00"
    ELSE IF amount > balance[u] THEN "Insufficient balance"
    ELSE IF ~(market.market_type = "target" /\ market.status = "active") THEN "Market not found or closed"
    ELSE IF now >= market.resolution_date THEN "Market has closed"
    ELSE "ok"

\* The inputs of the two views: amounts, outcomes, predictions, and the
\* bet_type and timeframe of a place_bet request.
BetAmounts == {Unit \div 2, MinBet * Unit, MinDeposit * Unit}
OutcomeInputs == Outcomes \cup {"MAYBE"}
Predictions == {"YES", "NO", "MAYBE"}
BetModes == {<<"regular", "15m">>, <<"quick_predict", "1m">>, <<"quick_predict", "5m">>}
InFlight == Cardinality({r \in ReqIds : req[r].pc # "idle"})
Resolving == Cardinality({r \in Resolvers : res[r].pc # "idle"})
\* A handler starts on a free worker process.
MayStart == InFlight + Resolving < workers

\* Autocommit: every write before the failure persists.
db_transaction_autocommit(k, n) == k

\* with db_transaction.atomic(): of the n writes of a block that fails after k
\* of them (k = n: no failure), the number that persist.
db_transaction_atomic(k, n) == IF k = n THEN n ELSE 0

\* A rejection that still charges the minimum stake to some user.
place_bet_rejected_charged ==
    /\ {i \in Users \X OutcomeInputs \X BetAmounts \X BetModes :
            place_bet_check(i[1], i[2], i[3], i[4][1], i[4][2]) # "ok"} # {}
    /\ \E u \in Users : balance' = [balance EXCEPT ![u] = @ - MinBet * Unit]
    /\ response' = "rejected"
    /\ UNCHANGED <<xp, level, market, bets, ledger, now, req, res, workers, stats>>
    /\ UNCHANGED sweep

\* place_bet up to its atomic block: a request failing a check is rejected.
place_bet_rejected ==
    /\ {i \in Users \X OutcomeInputs \X BetAmounts \X BetModes :
            place_bet_check(i[1], i[2], i[3], i[4][1], i[4][2]) # "ok"} # {}
    /\ response' = "rejected"
    /\ UNCHANGED <<balance, xp, level, market, bets, ledger, now, req, res, workers, stats>>
    /\ UNCHANGED sweep

\* place_bet up to its atomic block: request.user and the market row are read,
\* the odds are computed from the row read.
place_bet_validated(r, u, outcome, amount, bet_type, timeframe) ==
    /\ req[r].pc = "idle"
    /\ Len(bets) + InFlight < MaxBets /\ MayStart
    /\ place_bet_check(u, outcome, amount, bet_type, timeframe) = "ok"
    /\ req' = [req EXCEPT ![r] =
                 [pc |-> "atomic", view |-> "place_bet", user |-> u, outcome |-> outcome,
                  amount |-> amount,
                  bet_type |-> IF bet_type = "quick_predict" THEN "quick" ELSE "regular",
                  ubal |-> balance[u], uxp |-> xp[u], m |-> market,
                  odds |-> IF bet_type = "quick_predict"
                           THEN <<multipliers(timeframe, outcome), 100>>
                           ELSE market_odds(market, outcome)]]
    /\ response' = "none"
    /\ UNCHANGED <<balance, xp, level, market, bets, ledger, now, res, workers, stats>>
    /\ UNCHANGED sweep

\* The atomic block of place_bet, failing after k of its 5 writes (k = 5: no
\* failure): debit of request.user, Bet, market volumes, Transaction, xp.
place_bet_atomic(r, k) ==
    /\ req[r].pc = "atomic" /\ req[r].view = "place_bet"
    /\ LET q == req[r]
           u == q.user
           w == db_transaction_atomic(k, 5)
       IN  /\ balance' = IF w >= 1 THEN [balance EXCEPT ![u] = q.ubal - q.amount] ELSE balance
           /\ bets' = IF w >= 2
                      THEN Append(bets, Bet(u, q.bet_type, q.outcome, q.amount, q.odds))
                      ELSE bets
           /\ market' = IF w >= 3 /\ q.bet_type # "quick"
                        THEN AddVolume(q.m, q.outcome, q.amount) ELSE market
           /\ ledger' = IF w >= 4
                        THEN AddEntry(Entry(u, "bet", -q.amount, q.ubal, q.ubal - q.amount,
                                            "completed", Len(bets) + 1, 0))
                        ELSE ledger
           /\ xp' = IF w >= 5
                    THEN [xp EXCEPT ![u] = q.uxp + (IF q.bet_type = "quick" THEN QuickXp
                                                    ELSE BetXp(q.amount))]
                    ELSE xp
           /\ response' = IF k = 5 THEN "success" ELSE "failed"
    /\ req' = [req EXCEPT ![r] = IdleReq]
    /\ UNCHANGED <<level, now, res, workers, stats>>
    /\ UNCHANGED sweep

place_target_bet_rejected ==
    /\ {i \in Users \X Predictions \X BetAmounts :
            place_target_bet_check(i[1], i[2], i[3]) # "ok"} # {}
    /\ response' = "rejected"
    /\ UNCHANGED <<balance, xp, level, market, bets, ledger, now, req, res, workers, stats>>
    /\ UNCHANGED sweep

place_target_bet_validated(r, u, prediction, amount) ==
    /\ req[r].pc = "idle"
    /\ Len(bets) + InFlight < MaxBets /\ MayStart
    /\ place_target_bet_check(u, prediction, amount) = "ok"
    /\ LET outcome == IF prediction = "YES" THEN "UP" ELSE "DOWN"
       IN  req' = [req EXCEPT ![r] =
                     [pc |-> "atomic", view |-> "place_target_bet", user |-> u,
                      outcome |-> outcome, amount |-> amount, bet_type |-> "regular",
                      ubal |-> balance[u], uxp |-> xp[u], m |-> market,
                      odds |-> market_odds(market, outcome)]]
    /\ response' = "none"
    /\ UNCHANGED <<balance, xp, level, market, bets, ledger, now, res, workers, stats>>
    /\ UNCHANGED sweep

\* The atomic block of place_target_bet: the user row is read again under
\* select_for_update and the balance checked again; then 5 writes as above.
place_target_bet_atomic(r, k) ==
    /\ req[r].pc = "atomic" /\ req[r].view = "place_target_bet"
    /\ LET q == req[r]
           u == q.user
           w == IF balance[u] < q.amount THEN 0 ELSE db_transaction_atomic(k, 5)
       IN  /\ balance' = IF w >= 1 THEN [balance EXCEPT ![u] = @ - q.amount] ELSE balance
           /\ bets' = IF w >= 2
                      THEN Append(bets, Bet(u, "regular", q.outcome, q.amount, q.odds))
                      ELSE bets
           /\ market' = IF w >= 3 THEN AddVolume(q.m, q.outcome, q.amount) ELSE market
           /\ ledger' = IF w >= 4
                        THEN AddEntry(Entry(u, "bet", -q.amount, balance[u],
                                            balance[u] - q.amount, "completed",
                                            Len(bets) + 1, 0))
                        ELSE ledger
           /\ xp' = IF w >= 5 THEN [xp EXCEPT ![u] = @ + BetXp(q.amount)] ELSE xp
           /\ response' = IF balance[u] < q.amount THEN "rejected"
                          ELSE IF k = 5 THEN "success" ELSE "failed"
    /\ req' = [req EXCEPT ![r] = IdleReq]
    /\ UNCHANGED <<level, now, res, workers, stats>>
    /\ UNCHANGED sweep

\* The change form of MarketAdmin: an administrator sets the market's min_bet.
AdminMinBets == {DefaultMinBet, MinDeposit * 100}
MarketAdmin_change(min_bet) ==
    /\ MayStart
    /\ market.min_bet # min_bet
    /\ market' = [market EXCEPT !.min_bet = min_bet]
    /\ response' = "none"
    /\ UNCHANGED <<balance, xp, level, bets, ledger, now, req, res, workers, stats>>
    /\ UNCHANGED sweep

\* ------------------------------------------------------------- settlement
\* Ids of the rows of a Bet queryset, newest first (Meta.ordering = -placed_at).
RECURSIVE NewestFirst(_, _)
NewestFirst(n, ids) ==
    IF n = 0 THEN <<>>
    ELSE IF n \in ids THEN <<n>> \o NewestFirst(n - 1, ids) ELSE NewestFirst(n - 1, ids)

\* check_target_reached on the caller's market object m with the feed at price
\* p (0: no price): the object afterwards, and the (reached, current_price) pair.
check_target_reached_market(m, p) ==
    IF p # 0 /\ (m.highest_price_reached = 0 \/ p > m.highest_price_reached)
    THEN [m EXCEPT !.highest_price_reached = p]
    ELSE m

check_target_reached(m, p) ==
    IF p = 0 THEN <<FALSE, None>>
    ELSE <<check_target_reached_market(m, p).highest_price_reached >= m.target_price, p>>

\* market.save(update_fields=['highest_price_reached']) inside check_target_reached.
SaveHighest(m, p) ==
    IF check_target_reached_market(m, p) # m
    THEN [market EXCEPT !.highest_price_reached = check_target_reached_market(m, p).highest_price_reached]
    ELSE market

\* The guard of resolve_target_market on the market object passed to it.
resolve_guard(m) == m.status = "active"

\* The payout at the odds locked when the bet was placed.
actual_payout_locked_odds(bet, winning_pool, total_pool) == bet.potential_payout

\* actual_payout of a winning bet from the pool figures of the market object.
actual_payout(bet, winning_pool, total_pool) ==
    IF winning_pool > 0
    THEN RoundHalfEven((bet.amount \div Unit) * total_pool, winning_pool \div Unit)
    ELSE bet.potential_payout

winning_pool(m) == IF m.winning_outcome = "UP" THEN m.up_volume ELSE m.down_volume

\* monitor_price_targets: the queryset of active target markets is evaluated.
monitor_price_targets_load ==
    /\ res["monitor"].pc = "idle" /\ MayStart
    /\ market.market_type = "target" /\ market.status = "active"
    /\ res' = [res EXCEPT !["monitor"] = [IdleRes EXCEPT !.pc = "monitor", !.m = market]]
    /\ response' = "none"
    /\ UNCHANGED <<balance, xp, level, market, bets, ledger, now, req, workers, stats>>
    /\ UNCHANGED sweep

\* A sweep that never takes the deadline branch.
monitor_deadline_ignored(m) == FALSE

\* timezone.now() >= market.resolution_date, on the market object of the loop.
monitor_deadline_passed(m) == now >= m.resolution_date

\* monitor_price_targets, loop body: past the deadline resolve; otherwise check
\* the target at feed price p and resolve when it is reached.
monitor_price_targets_decide(p) ==
    /\ res["monitor"].pc = "monitor"
    /\ LET m == res["monitor"].m
       IN  IF monitor_deadline_passed(m)
           THEN /\ res' = [res EXCEPT !["monitor"].pc = "resolve"]
                /\ UNCHANGED market
           ELSE /\ res' = [res EXCEPT !["monitor"] =
                              IF check_target_reached(m, p)[1]
                              THEN [@ EXCEPT !.m = check_target_reached_market(m, p),
                                             !.pc = "resolve"]
                              ELSE IdleRes]
                /\ market' = SaveHighest(m, p)
    /\ response' = "none"
    /\ UNCHANGED <<balance, xp, level, bets, ledger, now, req, workers, stats>>
    /\ UNCHANGED sweep

\* MarketAdmin.resolve_target_markets_admin: the selected active target market.
resolve_target_markets_admin ==
    /\ res["admin"].pc = "idle" /\ MayStart
    /\ market.market_type = "target" /\ market.status = "active"
    /\ res' = [res EXCEPT !["admin"] = [IdleRes EXCEPT !.pc = "resolve", !.m = market]]
    /\ response' = "none"
    /\ UNCHANGED <<balance, xp, level, market, bets, ledger, now, req, workers, stats>>
    /\ UNCHANGED sweep

\* resolve_target_market called on a market object that is no longer active.
resolve_target_market_again(r) ==
    /\ res[r].pc = "idle" /\ MayStart
    /\ market.status # "active"
    /\ res' = [res EXCEPT ![r] = [IdleRes EXCEPT !.pc = "resolve", !.m = market]]
    /\ response' = "none"
    /\ UNCHANGED <<balance, xp, level, market, bets, ledger, now, req, workers, stats>>
    /\ UNCHANGED sweep

\* resolve_target_market: guard, outcome at feed price p, market closed and saved.
resolve_target_market_close(r, p) ==
    /\ res[r].pc = "resolve"
    /\ LET m == res[r].m
           m1 == check_target_reached_market(m, p)
           tr == check_target_reached(m, p)
           m2 == [m1 EXCEPT !.status = "resolved",
                            !.winning_outcome = IF tr[1] THEN "UP" ELSE "DOWN",
                            !.resolved_at = now,
                            !.round_end_price = tr[2]]
       IN  IF ~resolve_guard(m)
           THEN /\ res' = [res EXCEPT ![r] = IdleRes]
                /\ UNCHANGED market
           ELSE /\ res' = [res EXCEPT ![r].pc = "winners", ![r].m = m2]
                /\ market' = m2
    /\ response' = "none"
    /\ UNCHANGED <<balance, xp, level, bets, ledger, now, req, workers, stats>>
    /\ UNCHANGED sweep

\* The winning_bets queryset is evaluated when its loop starts.
resolve_target_market_winners(r) ==
    /\ res[r].pc = "winners"
    /\ LET ids == {i \in Indices(bets) : bets[i].outcome = res[r].m.winning_outcome
                                          /\ bets[i].status = "active"}
       IN  res' = [res EXCEPT ![r].pc = "pay", ![r].todo = NewestFirst(Len(bets), ids)]
    /\ response' = "none"
    /\ UNCHANGED <<balance, xp, level, market, bets, ledger, now, req, workers, stats>>
    /\ UNCHANGED sweep

\* Bet.save with the payout always computed again from the stored odds.
Bet_save_recomputed(bet) ==
    [bet EXCEPT !.potential_payout = PotentialPayout(bet.amount, <<bet.odds_at_bet, 10000>>)]

\* Bet.save: potential_payout is computed from the stored odds only when the
\* object has none; the whole row is written.
Bet_save(bet) ==
    IF bet.potential_payout = 0 \/ bet.potential_payout = None
    THEN [bet EXCEPT !.potential_payout = PotentialPayout(bet.amount, <<bet.odds_at_bet, 10000>>)]
    ELSE bet

\* Pay winners, one bet: actual_payout, status won, bet.save().
resolve_target_market_won(r) ==
    /\ res[r].pc = "pay" /\ res[r].todo # <<>>
    /\ LET b == Head(res[r].todo)
           pay == actual_payout(bets[b], winning_pool(res[r].m), res[r].m.total_volume)
       IN  /\ bets' = [bets EXCEPT ![b] = Bet_save([@ EXCEPT !.status = "won",
                                                               !.actual_payout = pay,
                                                               !.resolved_at = now])]
           /\ res' = [res EXCEPT ![r].pc = "credit", ![r].paid = pay]
    /\ response' = "none"
    /\ UNCHANGED <<balance, xp, level, market, ledger, now, req, workers, stats>>
    /\ UNCHANGED sweep

\* Credit user: bet.user is read, balance += actual_payout, user.save().
resolve_target_market_credit(r) ==
    /\ res[r].pc = "credit"
    /\ LET u == bets[Head(res[r].todo)].user
       IN  /\ balance' = [balance EXCEPT ![u] = @ + res[r].paid]
           /\ res' = [res EXCEPT ![r].pc = "txn", ![r].ubal = balance[u] + res[r].paid,
                                 ![r].uxp = xp[u], ![r].ulevel = level[u]]
    /\ response' = "none"
    /\ UNCHANGED <<xp, level, market, bets, ledger, now, req, workers, stats>>
    /\ UNCHANGED sweep

\* Transaction.objects.create(transaction_type='payout', ...).
resolve_target_market_txn(r) ==
    /\ res[r].pc = "txn"
    /\ LET b == Head(res[r].todo)
       IN  ledger' = AddEntry(Entry(bets[b].user, "payout", res[r].paid,
                                    res[r].ubal - res[r].paid, res[r].ubal,
                                    "completed", b, 0))
    /\ res' = [res EXCEPT ![r].pc = "xp"]
    /\ response' = "none"
    /\ UNCHANGED <<balance, xp, level, market, bets, now, req, workers, stats>>
    /\ UNCHANGED sweep

\* CustomUser.add_xp on a user object <<balance, xp, level>>: the object saved.
add_xp(user, amount) ==
    IF user[2] + amount >= user[3] * XpPerLevel /\ user[3] < MaxLevel
    THEN <<user[1] + LevelUpBonus * Unit, user[2] + amount, user[3] + 1>>
    ELSE <<user[1], user[2] + amount, user[3]>>

\* user.add_xp(50) on the user object credited above; the whole row is saved.
resolve_target_market_xp(r) ==
    /\ res[r].pc = "xp"
    /\ LET u == bets[Head(res[r].todo)].user
           saved == add_xp(<<res[r].ubal, res[r].uxp, res[r].ulevel>>, WinXp)
       IN  /\ balance' = [balance EXCEPT ![u] = saved[1]]
           /\ xp' = [xp EXCEPT ![u] = saved[2]]
           /\ level' = [level EXCEPT ![u] = saved[3]]
    /\ res' = [res EXCEPT ![r].pc = "pay", ![r].todo = Tail(@), ![r].paid = 0,
                          ![r].ubal = 0, ![r].uxp = 0, ![r].ulevel = 0]
    /\ response' = "none"
    /\ UNCHANGED <<market, bets, ledger, now, req, workers, stats>>
    /\ UNCHANGED sweep

\* A losing_bets queryset that selects nothing.
losing_bets_none(m) == {}

\* losing_bets: the market's active bets, excluding those on the winning outcome.
losing_bets(m) ==
    {i \in Indices(bets) : bets[i].outcome # m.winning_outcome /\ bets[i].status = "active"}

\* The losing_bets queryset is evaluated when its loop starts.
resolve_target_market_losers(r) ==
    /\ res[r].pc = "pay" /\ res[r].todo = <<>>
    /\ LET ids == losing_bets(res[r].m)
       IN  res' = [res EXCEPT ![r].pc = "lose", ![r].todo = NewestFirst(Len(bets), ids)]
    /\ response' = "none"
    /\ UNCHANGED <<balance, xp, level, market, bets, ledger, now, req, workers, stats>>
    /\ UNCHANGED sweep

\* Mark losers, one bet.
resolve_target_market_lost(r) ==
    /\ res[r].pc = "lose" /\ res[r].todo # <<>>
    /\ LET b == Head(res[r].todo)
       IN  bets' = [bets EXCEPT ![b] = Bet_save([@ EXCEPT !.status = "lost",
                                                           !.actual_payout = 0,
                                                           !.resolved_at = now])]
    /\ res' = [res EXCEPT ![r].todo = Tail(@)]
    /\ response' = "none"
    /\ UNCHANGED <<balance, xp, level, market, ledger, now, req, workers, stats>>
    /\ UNCHANGED sweep

resolve_target_market_return(r) ==
    /\ res[r].pc = "lose" /\ res[r].todo = <<>>
    /\ res' = [res EXCEPT ![r] = IdleRes]
    /\ response' = "none"
    /\ UNCHANGED <<balance, xp, level, market, bets, ledger, now, req, workers, stats>>
    /\ UNCHANGED sweep

\* The process running a resolution stops between two of its writes.
resolver_stops(r) ==
    /\ res[r].pc \in {"winners", "pay", "credit", "txn", "xp", "lose"}
    /\ res' = [res EXCEPT ![r] = IdleRes]
    /\ response' = "none"
    /\ UNCHANGED <<balance, xp, level, market, bets, ledger, now, req, workers, stats>>
    /\ UNCHANGED sweep

Tick ==
    /\ now < MaxTime
    /\ now' = now + 1
    /\ response' = "none"
    /\ UNCHANGED <<balance, xp, level, market, bets, ledger, req, res, workers, stats>>
    /\ UNCHANGED sweep

\* ------------------------------------------- a sweep over several markets
\* An exception caught by the outer handler only: the loop is abandoned.
monitor_price_targets_fatal(todo) == <<>>

\* except Exception inside the loop: the error is logged and the loop goes on
\* with the next market of the queryset.
monitor_price_targets_except(todo) == Tail(todo)

\* What can go wrong while one market is processed: nothing, an exception
\* before any write (price feed, database), an exception in
\* resolve_target_market after its market.save().
Failures == {"none", "feed", "resolution"}

\* monitor_price_targets: the queryset of active target markets is evaluated.
monitor_sweep_load ==
    /\ sweep.pc = "idle" /\ sweep.rows # <<>>
    /\ LET active == {i \in MarketIds : sweep.rows[i].market_type = "target"
                                          /\ sweep.rows[i].status = "active"}
       IN  sweep' = [sweep EXCEPT !.pc = "loop",
                                  !.todo = [k \in 1..Cardinality(active) |->
                                              CHOOSE i \in active :
                                                Cardinality({j \in active : j < i}) = k - 1],
                                  !.loaded = active, !.visited = {}, !.raised = {}]
    /\ UNCHANGED <<balance, xp, level, market, bets, ledger, now, req, res, response,
                   workers, stats>>

\* The row of market m after resolve_target_market with the feed at price p.
resolve_target_market_row(m, p) ==
    [check_target_reached_market(m, p) EXCEPT
        !.status = "resolved",
        !.winning_outcome = IF check_target_reached(m, p)[1] THEN "UP" ELSE "DOWN",
        !.resolved_at = now,
        !.round_end_price = check_target_reached(m, p)[2]]

\* The loop body for the next market: feed price p in the loop's own check, p2
\* in resolve_target_market, and a failure drawn from Failures.
monitor_sweep_body(p, p2, fail) ==
    /\ sweep.pc = "loop" /\ sweep.todo # <<>>
    /\ LET i == Head(sweep.todo)
           m == sweep.rows[i]
           due == now >= m.resolution_date
           checked == IF due THEN m ELSE check_target_reached_market(m, p)
           resolves == due \/ check_target_reached(m, p)[1]
           row == IF fail = "feed" THEN m
                  ELSE IF resolves THEN resolve_target_market_row(checked, p2)
                  ELSE checked
       IN  /\ fail = "resolution" => resolves
           /\ sweep' = [sweep EXCEPT !.rows[i] = row,
                                      !.visited = @ \cup {i},
                                      !.raised = IF fail = "none" THEN @ ELSE @ \cup {i},
                                      !.todo = IF fail = "none" THEN Tail(@)
                                               ELSE monitor_price_targets_except(@)]
    /\ UNCHANGED <<balance, xp, level, market, bets, ledger, now, req, res, response,
                   workers, stats>>

\* The loop has gone through the queryset: the job returns.
monitor_sweep_return ==
    /\ sweep.pc = "loop" /\ sweep.todo = <<>>
    /\ sweep' = [sweep EXCEPT !.pc = "done"]
    /\ UNCHANGED <<balance, xp, level, market, bets, ledger, now, req, res, response,
                   workers, stats>>

\* The scheduler fires the job again.
monitor_sweep_again ==
    /\ sweep.pc = "done"
    /\ sweep' = [IdleSweep EXCEPT !.rows = sweep.rows]
    /\ UNCHANGED <<balance, xp, level, market, bets, ledger, now, req, res, response,
                   workers, stats>>

\* ------------------------------------------------------------------ wallet
RECURSIVE MaxPid(_)
MaxPid(s) == IF s = <<>> THEN 0
             ELSE IF Head(s).pid > MaxPid(Tail(s)) THEN Head(s).pid ELSE MaxPid(Tail(s))

\* The id Stripe gives to the next payment intent: one not used before.
RECURSIVE NextPid(_)
NextPid(n) == IF n = 0 THEN 1
              ELSE IF MaxPid(ledger[n]) + 1 > NextPid(n - 1) THEN MaxPid(ledger[n]) + 1
              ELSE NextPid(n - 1)

DepositAmounts == {MinBet * Unit, MinDeposit * Unit}

\* wallet_deposit: the amount is validated, a payment intent is created and a
\* pending deposit entry is written with balance_before = balance_after = the
\* current balance.
wallet_deposit(u, amount) ==
    /\ MayStart
    /\ Len(ledger[u]) < MaxEntries
    /\ ledger' = IF amount < MinDeposit * Unit \/ amount \div Unit > MaxDeposit
                    \/ (amount \div Unit = MaxDeposit /\ amount % Unit > 0)
                 THEN ledger
                 ELSE AddEntry(Entry(u, "deposit", amount, balance[u], balance[u], "pending",
                                     0, NextPid(NumUsers)))
    /\ response' = "none"
    /\ UNCHANGED <<balance, xp, level, market, bets, now, req, res, workers, stats>>
    /\ UNCHANGED sweep

\* The deposit rows of user u carrying payment intent pid.
DepositRows(u, pid) ==
    {i \in Indices(ledger[u]) : ledger[u][i].pid = pid /\ ledger[u][i].type = "deposit"}

\* The row handle_successful_payment processes: the first pending one, else the
\* first, in the table's order (newest first).
TargetRow(u, pid) ==
    LET pending == {i \in DepositRows(u, pid) : ledger[u][i].status = "pending"}
    IN  IF pending # {} THEN CHOOSE i \in pending : \A j \in pending : i >= j
        ELSE CHOOSE i \in DepositRows(u, pid) : \A j \in DepositRows(u, pid) : i >= j

\* handle_successful_payment: the Stripe webhook for payment intent pid, paid in
\* full.  Nothing is done when a completed deposit row exists; otherwise the
\* user is credited and the row completed in one atomic block.
handle_successful_payment(u, pid) ==
    /\ MayStart
    /\ DepositRows(u, pid) # {}
    /\ IF \E i \in DepositRows(u, pid) : ledger[u][i].status = "completed"
       THEN UNCHANGED <<balance, ledger>>
       ELSE LET i == TargetRow(u, pid)
                new_balance == balance[u] + ledger[u][i].amount
            IN  /\ balance' = [balance EXCEPT ![u] = new_balance]
                /\ ledger' = [ledger EXCEPT ![u][i].status = "completed",
                                            ![u][i].balance_before = balance[u],
                                            ![u][i].balance_after = new_balance]
    /\ response' = "none"
    /\ UNCHANGED <<xp, level, market, bets, now, req, res, workers, stats>>
    /\ UNCHANGED sweep

\* The entries of user u carrying payment intent pid whose status is not the
\* one given, and the first of them in the table's order (newest first).
RowsNotIn(u, pid, status) ==
    {i \in Indices(ledger[u]) : ledger[u][i].pid = pid /\ ledger[u][i].status # status}

FirstRow(rows) == CHOOSE i \in rows : \A j \in rows : i >= j

\* handle_failed_payment: the Stripe webhook payment_intent.payment_failed for
\* pid.  The first entry with that payment intent that is not failed is marked
\* failed; the balance is not touched.
handle_failed_payment(u, pid) ==
    /\ MayStart
    /\ \E i \in Indices(ledger[u]) : ledger[u][i].pid = pid
    /\ ledger' = IF RowsNotIn(u, pid, "failed") # {}
                 THEN [ledger EXCEPT ![u][FirstRow(RowsNotIn(u, pid, "failed"))].status = "failed"]
                 ELSE ledger
    /\ response' = "none"
    /\ UNCHANGED <<balance, xp, level, market, bets, now, req, res, workers, stats>>
    /\ UNCHANGED sweep

\* handle_canceled_payment: the webhook payment_intent.canceled for pid.  The
\* first entry with that payment intent that is not cancelled is marked
\* cancelled.
handle_canceled_payment(u, pid) ==
    /\ MayStart
    /\ \E i \in Indices(ledger[u]) : ledger[u][i].pid = pid
    /\ ledger' = IF RowsNotIn(u, pid, "cancelled") # {}
                 THEN [ledger EXCEPT ![u][FirstRow(RowsNotIn(u, pid, "cancelled"))].status = "cancelled"]
                 ELSE ledger
    /\ response' = "none"
    /\ UNCHANGED <<balance, xp, level, market, bets, now, req, res, workers, stats>>
    /\ UNCHANGED sweep

\* ---------------------------------------------------------------- transfers
\* The account row of user u is locked (select_for_update) by transfer r.
HoldsRow(r, u) ==
    /\ req[r].view = "transfer"
    /\ \/ req[r].pc \in {"lock_recipient", "locked"} /\ req[r].user = u
       \/ req[r].pc = "locked" /\ req[r].recipient = u

RowFree(r, u) == \A o \in ReqIds \ {r} : ~HoldsRow(o, u)

\* The checks of transfer_between_users before its atomic block, on the sender
\* object passed in; recipient 0 stands for an identifier nobody has.
transfer_check(sender, recipient, amount) ==
    IF amount <= 0 THEN "Invalid amount"
    ELSE IF balance[sender] < amount THEN "Insufficient balance"
    ELSE IF recipient \notin Users THEN "Recipient not found"
    ELSE IF sender = recipient THEN "Cannot transfer to yourself"
    ELSE "ok"

TransferAmounts == {0, 3 * Unit, 6 * Unit}

\* transfer_between_users returns at one of its checks.
transfer_between_users_rejected ==
    /\ \E sender \in Users, recipient \in Users \cup {0}, amount \in TransferAmounts :
          MayStart /\ transfer_check(sender, recipient, amount) # "ok"
    /\ response' = "rejected"
    /\ UNCHANGED <<balance, xp, level, market, bets, ledger, now, req, res, workers, stats>>
    /\ UNCHANGED sweep

\* transfer_between_users passes its checks and enters the atomic block.
transfer_between_users_validated(r, sender, recipient, amount) ==
    /\ req[r].pc = "idle" /\ MayStart
    /\ \A u \in {sender, recipient} \cap Users : Len(ledger[u]) < MaxLedger
    /\ transfer_check(sender, recipient, amount) = "ok"
    /\ req' = [req EXCEPT ![r] = [IdleReq EXCEPT !.pc = "lock_sender", !.view = "transfer",
                                                 !.user = sender, !.recipient = recipient,
                                                 !.amount = amount]]
    /\ response' = "none"
    /\ UNCHANGED <<balance, xp, level, market, bets, ledger, now, res, workers, stats>>
    /\ UNCHANGED sweep

\* CustomUser.objects.select_for_update().get(id=sender.id): waits for the row.
transfer_between_users_lock_sender(r) ==
    /\ req[r].view = "transfer" /\ req[r].pc = "lock_sender"
    /\ RowFree(r, req[r].user)
    /\ req' = [req EXCEPT ![r].pc = "lock_recipient"]
    /\ response' = "none"
    /\ UNCHANGED <<balance, xp, level, market, bets, ledger, now, res, workers, stats>>
    /\ UNCHANGED sweep

\* CustomUser.objects.select_for_update().get(id=recipient.id): waits for the row.
transfer_between_users_lock_recipient(r) ==
    /\ req[r].view = "transfer" /\ req[r].pc = "lock_recipient"
    /\ RowFree(r, req[r].recipient)
    /\ req' = [req EXCEPT ![r].pc = "locked"]
    /\ response' = "none"
    /\ UNCHANGED <<balance, xp, level, market, bets, ledger, now, res, workers, stats>>
    /\ UNCHANGED sweep

\* The rest of the atomic block with both rows locked: the balance is checked
\* again, then 4 writes (two rows saved, two entries created); k < 4 is a
\* failure after k writes.  The locks are released when the block ends.
transfer_between_users_atomic(r, k) ==
    /\ req[r].view = "transfer" /\ req[r].pc = "locked"
    /\ LET s == req[r].user
           t == req[r].recipient
           a == req[r].amount
           w == IF balance[s] < a THEN 0 ELSE db_transaction_atomic(k, 4)
       IN  /\ balance' = [u \in Users |->
                             IF u = s /\ w >= 1 THEN balance[u] - a
                             ELSE IF u = t /\ w >= 2 THEN balance[u] + a
                             ELSE balance[u]]
           /\ ledger' = [u \in Users |->
                            IF u = s /\ w >= 3
                            THEN Append(ledger[u], Entry(s, "transfer", -a, balance[s],
                                                         balance[s] - a, "completed", 0, 0))
                            ELSE IF u = t /\ w >= 4
                            THEN Append(ledger[u], Entry(t, "transfer", a, balance[t],
                                                         balance[t] + a, "completed", 0, 0))
                            ELSE ledger[u]]
           /\ response' = IF balance[s] < a THEN "rejected"
                          ELSE IF k = 4 THEN "success" ELSE "failed"
    /\ req' = [req EXCEPT ![r] = IdleReq]
    /\ UNCHANGED <<xp, level, market, bets, now, res, workers, stats>>
    /\ UNCHANGED sweep

\* Transfers r and o each hold the row the other is waiting for.
CircularWait(r, o) ==
    /\ r # o
    /\ req[r].view = "transfer" /\ req[r].pc = "lock_recipient"
    /\ req[o].view = "transfer" /\ req[o].pc = "lock_recipient"
    /\ HoldsRow(o, req[r].recipient) /\ HoldsRow(r, req[o].recipient)

\* The database ends a circular wait by aborting one of the transactions: the
\* exception is caught by transfer_between_users, which returns a failure.
transfer_between_users_aborted(r) ==
    /\ \E o \in ReqIds : CircularWait(r, o)
    /\ req' = [req EXCEPT ![r] = IdleReq]
    /\ response' = "failed"
    /\ UNCHANGED <<balance, xp, level, market, bets, ledger, now, res, workers, stats>>
    /\ UNCHANGED sweep

\* -------------------------------------------------------------- withdrawals
EntriesOfType(u, type) == {i \in Indices(ledger[u]) : ledger[u][i].type = type}

WithdrawAmounts == {0, 3 * Unit, 6 * Unit}

\* wallet_withdraw's checks before its atomic block (address checks apart).
wallet_withdraw_check(u, amount) ==
    LET platform_fee == (amount * WithdrawalFeePercent) \div 100
        net_amount == amount - (platform_fee + TestingNetworkFee)
    IN  IF amount < TestingMinAmount THEN "Minimum withdrawal"
        ELSE IF balance[u] < amount THEN "Insufficient balance"
        ELSE IF net_amount <= 0 THEN "Amount too small after fees"
        ELSE "ok"

wallet_withdraw_rejected ==
    /\ \E u \in Users, amount \in WithdrawAmounts :
          MayStart /\ wallet_withdraw_check(u, amount) # "ok"
    /\ response' = "rejected"
    /\ UNCHANGED <<balance, xp, level, market, bets, ledger, now, req, res, workers, stats>>
    /\ UNCHANGED sweep

\* wallet_withdraw's atomic block: the balance is debited and a pending
\* withdrawal entry of -amount created; when send_withdrawal succeeds (sent) the
\* entry gets its external id and status completed and a fee entry is added,
\* otherwise the balance is credited back, the entry is marked failed and
\* refunded, and a refund entry is added.
wallet_withdraw(u, amount, sent) ==
    /\ MayStart
    /\ Cardinality(EntriesOfType(u, "withdrawal")) < MaxWithdrawals
    /\ wallet_withdraw_check(u, amount) = "ok"
    /\ LET id == Len(ledger[u]) + 1
           platform_fee == (amount * WithdrawalFeePercent) \div 100
           withdrawal_tx == Entry(u, "withdrawal", -amount, balance[u], balance[u] - amount,
                                  "pending", 0, 0)
       IN  IF sent
           THEN /\ balance' = [balance EXCEPT ![u] = @ - amount]
                /\ ledger' = [ledger EXCEPT ![u] =
                      @ \o <<[withdrawal_tx EXCEPT !.status = "completed", !.external_id = id],
                             Entry(u, "fee", platform_fee, balance[u] - amount,
                                   balance[u] - amount, "completed", 0, 0)>>]
                /\ response' = "success"
           ELSE /\ balance' = balance
                /\ ledger' = [ledger EXCEPT ![u] =
                      @ \o <<[withdrawal_tx EXCEPT !.status = "failed", !.refunded = TRUE],
                             [Entry(u, "refund", amount, balance[u] - amount, balance[u],
                                    "completed", 0, 0) EXCEPT !.original_withdrawal = id]>>]
                /\ response' = "failed"
    /\ UNCHANGED <<xp, level, market, bets, now, req, res, workers, stats>>
    /\ UNCHANGED sweep

\* refund_failed_withdrawal(transaction): the refund entry added for the
\* withdrawal at index i of user u's entries.
refund_failed_withdrawal(u, i) ==
    LET refund_amount == -ledger[u][i].amount
    IN  [Entry(u, "refund", refund_amount, balance[u], balance[u] + refund_amount,
               "completed", 0, 0) EXCEPT !.original_withdrawal = i]

WebhookStatuses == {"success", "failed", "processing"}

\* handle_withdrawal_webhook for a withdrawal found by its external id.
handle_withdrawal_webhook(u, i, status, confirmations) ==
    /\ MayStart
    /\ i \in EntriesOfType(u, "withdrawal") /\ ledger[u][i].external_id # 0
    /\ LET old_status == ledger[u][i].status
           new_status == IF status = "success" \/ confirmations >= 1 THEN "completed"
                         ELSE IF status = "failed" THEN "failed"
                         ELSE "pending"
           refund == new_status = "failed" /\ old_status = "pending"
       IN  /\ refund => Cardinality(EntriesOfType(u, "refund")) < MaxRefunds
           /\ balance' = IF refund THEN [balance EXCEPT ![u] = @ - ledger[u][i].amount]
                         ELSE balance
           /\ ledger' = [ledger EXCEPT ![u] =
                            IF refund
                            THEN Append([@ EXCEPT ![i].status = new_status],
                                        refund_failed_withdrawal(u, i))
                            ELSE [@ EXCEPT ![i].status = new_status]]
    /\ response' = "none"
    /\ UNCHANGED <<xp, level, market, bets, now, req, res, workers, stats>>
    /\ UNCHANGED sweep

\* TransactionAdmin.refund_failed_withdrawal on one selected row: a failed
\* withdrawal without the refunded mark is credited back and marked.
TransactionAdmin_refund_failed_withdrawal(u, i) ==
    /\ MayStart
    /\ i \in EntriesOfType(u, "withdrawal")
    /\ ledger[u][i].status = "failed" /\ ~ledger[u][i].refunded
    /\ Cardinality(EntriesOfType(u, "refund")) < MaxRefunds
    /\ balance' = [balance EXCEPT ![u] = @ - ledger[u][i].amount]
    /\ ledger' = [ledger EXCEPT ![u] =
                     Append([@ EXCEPT ![i].refunded = TRUE], refund_failed_withdrawal(u, i))]
    /\ response' = "none"
    /\ UNCHANGED <<xp, level, market, bets, now, req, res, workers, stats>>
    /\ UNCHANGED sweep

\* Sum('amount') over the completed entries of user u of one transaction_type.
RECURSIVE SumOfType(_, _)
SumOfType(s, type) ==
    IF s = <<>> THEN 0
    ELSE (IF Head(s).type = type /\ Head(s).status = "completed" THEN Head(s).amount ELSE 0)
         + SumOfType(Tail(s), type)

\* userPortfolio: deposits + payouts + bonuses - withdrawals + bets_placed.
calculated_balance(u) ==
    SumOfType(ledger[u], "deposit") + SumOfType(ledger[u], "payout")
    + SumOfType(ledger[u], "bonus") - SumOfType(ledger[u], "withdrawal")
    + SumOfType(ledger[u], "bet")

\* UserStats.update_stats: the counts of the user's bets.
update_stats(u) ==
    [total_bets |-> Cardinality({b \in Indices(bets) : bets[b].user = u}),
     won_bets |-> Cardinality({b \in Indices(bets) : bets[b].user = u /\ bets[b].status = "won"})]

\* userPortfolio's xp: 10 per bet, 5 per $10 deposited, 25 per win.
calculated_xp(u, st) ==
    st.total_bets * 10 + (SumOfType(ledger[u], "deposit") \div (10 * Unit)) * 5 + st.won_bets * 25

\* userPortfolio: the stats row is created or, when older than an hour (old),
\* refreshed; the balance is replaced by the calculated one when they differ by
\* more than 0.01; the xp is replaced by the calculated one.
userPortfolio(u, old) ==
    /\ MayStart
    /\ LET st == IF stats[u] = NoStats \/ old THEN update_stats(u) ELSE stats[u]
           calc == calculated_balance(u)
           diff == IF balance[u] >= calc THEN balance[u] - calc ELSE calc - balance[u]
       IN  /\ stats' = [stats EXCEPT ![u] = st]
           /\ balance' = IF diff > Unit \div BalanceTolerance
                         THEN [balance EXCEPT ![u] = calc] ELSE balance
           /\ xp' = [xp EXCEPT ![u] = calculated_xp(u, st)]
    /\ response' = "none"
    /\ UNCHANGED <<level, market, bets, ledger, now, req, res, workers>>
    /\ UNCHANGED sweep

NextBet ==
    \/ place_bet_rejected
    \/ \E r \in ReqIds, u \in Users, o \in Outcomes, a \in BetAmounts, t \in BetModes :
            place_bet_validated(r, u, o, a, t[1], t[2])
    \/ \E r \in ReqIds, k \in 0..5 : place_bet_atomic(r, k)

NextTargetBet ==
    \/ place_target_bet_rejected
    \/ \E r \in ReqIds, u \in Users, o \in Predictions, a \in BetAmounts :
            place_target_bet_validated(r, u, o, a)
    \/ \E r \in ReqIds, k \in 0..5 : place_target_bet_atomic(r, k)

NextSettle ==
    \/ monitor_price_targets_load
    \/ \E p \in Prices : monitor_price_targets_decide(p)
    \/ resolve_target_markets_admin
    \/ \E r \in Resolvers : resolve_target_market_again(r)
    \/ \E r \in Resolvers, p \in Prices : resolve_target_market_close(r, p)
    \/ \E r \in Resolvers : resolve_target_market_winners(r)
    \/ \E r \in Resolvers : resolve_target_market_won(r)
    \/ \E r \in Resolvers : resolve_target_market_credit(r)
    \/ \E r \in Resolvers : resolve_target_market_txn(r)
    \/ \E r \in Resolvers : resolve_target_market_xp(r)
    \/ \E r \in Resolvers : resolve_target_market_losers(r)
    \/ \E r \in Resolvers : resolve_target_market_lost(r)
    \/ \E r \in Resolvers : resolve_target_market_return(r)

\* Every handler of the market, one worker.
Next == NextBet \/ NextTargetBet \/ NextSettle \/ Tick
Spec == Init /\ [][Next]_vars

\* The two bet views on MaxConcurrent workers.
NextBets == NextBet \/ NextTargetBet \/ Tick
SpecBets == InitConcurrent /\ [][NextBets]_vars

\* The Stripe deposit handlers, the portfolio view and place_bet with regular UP
\* bets of a whole minimum deposit, on MaxConcurrent workers.
NextWallet ==
    \/ \E u \in Users, a \in DepositAmounts : wallet_deposit(u, a)
    \/ \E u \in Users, pid \in 1..(NumUsers + MaxEntries) : handle_successful_payment(u, pid)
    \/ \E u \in Users, old \in BOOLEAN : userPortfolio(u, old)
    \/ place_bet_rejected
    \/ \E r \in ReqIds, u \in Users :
            place_bet_validated(r, u, "UP", MinDeposit * Unit, "regular", "15m")
    \/ \E r \in ReqIds, k \in 0..5 : place_bet_atomic(r, k)
SpecWallet == InitConcurrent /\ [][NextWallet]_vars

\* stripe_webhook, event payment_intent.succeeded, for an account holding at
\* most MaxCredited dollars.
stripe_webhook_succeeded(u, pid) ==
    /\ balance[u] <= MaxCredited * Unit
    /\ handle_successful_payment(u, pid)

\* transfer_between_users on MaxConcurrent workers.
NextTransfer ==
    \/ transfer_between_users_rejected
    \/ \E r \in ReqIds, sender \in Users, recipient \in Users \cup {0}, amount \in TransferAmounts :
            transfer_between_users_validated(r, sender, recipient, amount)
    \/ \E r \in ReqIds : transfer_between_users_lock_sender(r)
    \/ \E r \in ReqIds : transfer_between_users_lock_recipient(r)
    \/ \E r \in ReqIds, k \in 0..4 : transfer_between_users_atomic(r, k)
    \/ \E r \in ReqIds : transfer_between_users_aborted(r)
SpecTransfer == InitConcurrent /\ [][NextTransfer]_vars

\* transfer_between_users and the portfolio page, one worker.
NextPortfolio ==
    \/ transfer_between_users_rejected
    \/ \E r \in ReqIds, sender \in Users, recipient \in Users \cup {0}, amount \in TransferAmounts :
            transfer_between_users_validated(r, sender, recipient, amount)
    \/ \E r \in ReqIds : transfer_between_users_lock_sender(r)
    \/ \E r \in ReqIds : transfer_between_users_lock_recipient(r)
    \/ \E r \in ReqIds, k \in 0..4 : transfer_between_users_atomic(r, k)
    \/ \E u \in Users, old \in BOOLEAN : userPortfolio(u, old)
SpecPortfolio == Init /\ [][NextPortfolio]_vars

\* wallet_withdraw, the Coinremitter webhook and the admin refund action.
NextWithdraw ==
    \/ wallet_withdraw_rejected
    \/ \E u \in Users, amount \in WithdrawAmounts, sent \in BOOLEAN : wallet_withdraw(u, amount, sent)
    \/ \E u \in Users, i \in 1..(2 + MaxRefunds), status \in WebhookStatuses, confirmations \in 0..1 :
            handle_withdrawal_webhook(u, i, status, confirmations)
    \/ \E u \in Users, i \in 1..(2 + MaxRefunds) : TransactionAdmin_refund_failed_withdrawal(u, i)
SpecWithdraw == Init /\ [][NextWithdraw]_vars

\* wallet_deposit and the three Stripe webhook handlers, one worker; a webhook
\* for a payment intent may arrive at any time and any number of times.  Success
\* webhooks are followed for accounts holding at most MaxCredited dollars.
NextWebhooks ==
    \/ \E u \in Users, a \in DepositAmounts : wallet_deposit(u, a)
    \/ \E u \in Users, pid \in 1..(NumUsers + MaxEntries) : stripe_webhook_succeeded(u, pid)
    \/ \E u \in Users, pid \in 1..(NumUsers + MaxEntries) : handle_failed_payment(u, pid)
    \/ \E u \in Users, pid \in 1..(NumUsers + MaxEntries) : handle_canceled_payment(u, pid)
SpecWebhooks == Init /\ [][NextWebhooks]_vars

\* The state in which user 1 and then user 2 have each placed a target bet of
\* MinBet.
InitPlaced ==
    \E o1 \in {"UP", "DOWN"}, o2 \in {"UP", "DOWN"} :
        LET stake == MinBet * Unit
            m1 == AddVolume(NewMarket, o1, stake)
            b1 == Bet(1, "regular", o1, stake, market_odds(NewMarket, o1))
            b2 == Bet(2, "regular", o2, stake, market_odds(m1, o2))
            deposit == [u \in Users |-> ProfileDeposit(IF u = 1 THEN "veteran" ELSE "small")]
        IN  /\ balance = [u \in Users |-> IF u \in {1, 2} THEN deposit[u] - stake ELSE deposit[u]]
            /\ xp = [u \in Users |-> ProfileXp(IF u = 1 THEN "veteran" ELSE "small")
                                      + (IF u \in {1, 2} THEN BetXp(stake) ELSE 0)]
            /\ level = [u \in Users |-> 1]
            /\ market = AddVolume(m1, o2, stake)
            /\ bets = <<b1, b2>>
            /\ ledger = [u \in Users |->
                           <<Entry(u, "deposit", deposit[u], 0, deposit[u], "completed", 0, u)>>
                           \o (IF u \in {1, 2}
                               THEN <<Entry(u, "bet", -stake, deposit[u], deposit[u] - stake,
                                            "completed", u, 0)>>
                               ELSE <<>>)]
            /\ now = 0
            /\ req = [r \in ReqIds |-> IdleReq]
            /\ res = [r \in Resolvers |-> IdleRes]
            /\ response = "none"
            /\ stats = [u \in Users |-> IF u = 1 THEN [total_bets |-> 0, won_bets |-> 0]
                                         ELSE NoStats]

\* Settlement of the two placed bets on MaxConcurrent workers.
InitRace == InitPlaced /\ workers = MaxConcurrent /\ sweep = IdleSweep
NextRace == NextSettle \/ Tick
SpecRace == InitRace /\ [][NextRace]_vars

\* Settlement of the two placed bets on one worker whose process may stop
\* between two writes of a resolution.  The scheduler keeps running the sweep
\* and a running call keeps going unless its process stops.
InitCrash == InitPlaced /\ workers = 1 /\ sweep = IdleSweep
NextCrash == NextSettle \/ (\E r \in Resolvers : resolver_stops(r)) \/ Tick
SpecCrash == InitCrash /\ [][NextCrash]_vars /\ WF_vars(NextSettle)

\* The two bet views and the market's change form, one worker.
NextLimits ==
    \/ \E v \in AdminMinBets : MarketAdmin_change(v)
    \/ NextBet
    \/ NextTargetBet
    \/ Tick
SpecLimits == Init /\ [][NextLimits]_vars

\* Regular bets of MinBet or LargeStake through both views, one worker.
OddsAmounts == {MinBet * Unit, LargeStake * Unit}
NextOdds ==
    \/ \E r \in ReqIds, u \in Users, o \in Outcomes, a \in OddsAmounts :
            place_bet_validated(r, u, o, a, "regular", "15m")
    \/ \E r \in ReqIds : place_bet_atomic(r, 5)
    \/ \E r \in ReqIds, u \in Users, o \in {"YES", "NO"}, a \in OddsAmounts :
            place_target_bet_validated(r, u, o, a)
    \/ \E r \in ReqIds : place_target_bet_atomic(r, 5)
SpecOdds == Init /\ [][NextOdds]_vars

\* Every step of a resolution by the monitor sweep.
MonitorSettle ==
    \/ monitor_price_targets_load
    \/ \E p \in Prices : monitor_price_targets_decide(p)
    \/ \E p \in Prices : resolve_target_market_close("monitor", p)
    \/ resolve_target_market_winners("monitor")
    \/ resolve_target_market_won("monitor")
    \/ resolve_target_market_credit("monitor")
    \/ resolve_target_market_txn("monitor")
    \/ resolve_target_market_xp("monitor")
    \/ resolve_target_market_losers("monitor")
    \/ resolve_target_market_lost("monitor")
    \/ resolve_target_market_return("monitor")

\* The monitor job alone settling the two placed bets, one worker: the scheduler
\* keeps firing the job and a running job keeps going; the feed may give any
\* price or none at every read.
InitDeadline == InitPlaced /\ workers = 1 /\ sweep = IdleSweep
NextDeadline == MonitorSettle \/ Tick
SpecDeadline == InitDeadline /\ [][NextDeadline]_vars /\ WF_vars(MonitorSettle) /\ WF_vars(Tick)

\* place_target_bet with stakes of MinBet racing the monitor sweep, on
\* MaxConcurrent workers.
NextMix ==
    \/ \E r \in ReqIds, u \in Users, o \in {"YES", "NO"} :
            place_target_bet_validated(r, u, o, MinBet * Unit)
    \/ \E r \in ReqIds : place_target_bet_atomic(r, 5)
    \/ MonitorSettle
    \/ Tick
SpecMix == InitConcurrent /\ [][NextMix]_vars

\* The monitor job sweeping a table of NumMarkets target markets without bets,
\* with deadlines at, before and after the clock's range, one worker.
InitSweep ==
    /\ InitDb /\ workers = 1
    /\ \E dates \in [MarketIds -> 0..(MaxTime + 1)] :
          sweep = [IdleSweep EXCEPT
                      !.rows = [i \in MarketIds |-> [NewMarket EXCEPT !.resolution_date = dates[i]]]]
NextSweep ==
    \/ monitor_sweep_load
    \/ \E p \in Prices, p2 \in Prices, fail \in Failures : monitor_sweep_body(p, p2, fail)
    \/ monitor_sweep_return
    \/ monitor_sweep_again
    \/ Tick
SpecSweep == InitSweep /\ [][NextSweep]_vars

\* ---------------------------------------------------------------- properties
\* No handler is running.
Quiescent ==
    /\ \A r \in ReqIds : req[r].pc = "idle"
    /\ \A r \in Resolvers : res[r].pc = "idle"

RECURSIVE SumAmounts(_)
SumAmounts(s) == IF s = <<>> THEN 0 ELSE Head(s).amount + SumAmounts(Tail(s))

IsCompleted(e) == e.status = "completed"
\* The balance obtained by replaying a user's completed ledger entries from 0.
Replayed(u) == SumAmounts(SelectSeq(ledger[u], IsCompleted))

\* Completed payout entries referencing bet b.
PayoutEntries(b) ==
    {i \in Indices(ledger[bets[b].user]) :
        LET e == ledger[bets[b].user][i]
        IN  e.type = "payout" /\ e.status = "completed" /\ e.bet = b}

\* Completed bet entries of the owner of bet b referencing it.
BetEntries(b) ==
    {i \in Indices(ledger[bets[b].user]) :
        LET e == ledger[bets[b].user][i]
        IN  e.type = "bet" /\ e.status = "completed" /\ e.bet = b}

\* C1: balance reconciliation.  Whenever no handler is running, replaying all
\* completed ledger entries of a user from 0 yields the user's current balance.
C1_BalanceReconciliation == Quiescent => \A u \in Users : balance[u] = Replayed(u)

\* C2: when resolve is invoked twice on a market, one after the other or at the
\* same time (monitor and admin), winners are paid exactly once: no bet has more
\* than one completed payout entry.
C2_WinnersPaidOnce == \A b \in Indices(bets) : Cardinality(PayoutEntries(b)) <= 1

\* C3: resolve is idempotent.  Once the market is resolved and the call that
\* resolved it has returned, a further call of resolve_target_market leaves the
\* market, the bets, the balances and the ledger as they were.  The further call
\* may hold the market object it loaded before the first call ran, as the sweep
\* of monitor_price_targets does.
C3_ResolveIdempotent ==
    [][\A r \in Resolvers :
          (/\ res[r].pc = "resolve" /\ market.status = "resolved"
           /\ \A o \in Resolvers \ {r} : res[o].pc = "idle"
           /\ res'[r] # res[r])
              => UNCHANGED db]_vars

\* C4: pool conservation.  Once a market is resolved and settled, the sum of
\* actual_payout over its winning bets does not exceed its total_volume.
C4_PoolConservation ==
    (Quiescent /\ market.status = "resolved")
        => SumSeq([b \in Indices(bets) |->
                     IF bets[b].status = "won" THEN bets[b].actual_payout ELSE 0],
                  [b \in Indices(bets) |-> b]) <= market.total_volume

\* C5: a rejected bet placement leaves balances, bets, market volumes and the
\* ledger unchanged.
C5_RejectedBetChangesNothing == [][response' = "rejected" => UNCHANGED db]_vars

\* A bet is rejected on a resolved market after another bet was placed.
C5_Witness == response = "rejected" /\ market.status = "resolved" /\ bets # <<>>

\* C6: bet placement is atomic.  A placement that fails at any step boundary
\* changes nothing, and every bet has exactly one completed ledger entry of type
\* bet, of amount -bet.amount, referencing it; no bet entry is without its bet.
C6_BetPlacementAtomic ==
    /\ [](\A b \in Indices(bets) :
            /\ Cardinality(BetEntries(b)) = 1
            /\ \A i \in BetEntries(b) : ledger[bets[b].user][i].amount = -bets[b].amount)
    /\ [](\A u \in Users : \A i \in Indices(ledger[u]) :
            ledger[u][i].type = "bet"
                => ledger[u][i].bet \in Indices(bets) /\ bets[ledger[u][i].bet].user = u)
    /\ [][response' = "failed" => UNCHANGED db]_vars

\* A placement fails after another one succeeded.
C6_Witness == response = "failed" /\ bets # <<>>

\* C7: no user's balance is ever negative.
C7_BalanceNonNegative == \A u \in Users : balance[u] >= 0

C9_EntryArithmetic ==
    \A u \in Users : \A i \in Indices(ledger[u]) :
        ledger[u][i].balance_after = ledger[u][i].balance_before + ledger[u][i].amount

\* C10: every step that changes a user's balance appends, in the same step,
\* exactly one ledger entry for that user whose amount is the change.
C10_BalanceChangeHasEntry ==
    [][\A u \in Users :
          balance'[u] # balance[u]
              => /\ Len(ledger'[u]) = Len(ledger[u]) + 1
                 /\ SubSeq(ledger'[u], 1, Len(ledger[u])) = ledger[u]
                 /\ ledger'[u][Len(ledger'[u])].amount = balance'[u] - balance[u]]_vars

\* C11: resolution is one-way.  Once the stored market is resolved, no step
\* makes it active again or changes its winning_outcome or resolved_at, whatever
\* bet placements and monitor sweeps run alongside.
C11_ResolutionOneWay ==
    [][market.status = "resolved"
          => /\ market'.status = "resolved"
             /\ market'.winning_outcome = market.winning_outcome
             /\ market'.resolved_at = market.resolved_at]_vars

\* C12: partial resolution is never observable.  With no handler running, the
\* stored market is not resolved while one of its bets is still active, and it
\* is not active while one of its bets is already won or lost.
C12_NoPartialResolution ==
    Quiescent =>
        /\ ~(market.status = "resolved" /\ \E b \in Indices(bets) : bets[b].status = "active")
        /\ ~(market.status = "active" /\ \E b \in Indices(bets) : bets[b].status \in {"won", "lost"})

\* C13: settlement is safely re-runnable.  Once the market is stored as resolved,
\* also when the resolving process stopped partway and resolve is called again,
\* every bet is eventually won or lost; and no bet gets a second payout.
C13_SettlementRerunnable ==
    /\ (market.status = "resolved") ~> (\A b \in Indices(bets) : bets[b].status # "active")
    /\ [](\A b \in Indices(bets) : Cardinality(PayoutEntries(b)) <= 1)

\* C14: first-touch rule.  A resolved target market has winning_outcome UP exactly
\* when its highest_price_reached is at least its target_price, whether or not
\* the price feed gave a price at resolution time.
C14_FirstTouchRule ==
    market.status = "resolved"
        => (market.winning_outcome = "UP"
                <=> market.highest_price_reached >= market.target_price)

\* C15: on the deadline path the outcome comes from the stored high-water mark.
\* When a market is resolved at or after its resolution_date and the feed gives
\* a price, winning_outcome is UP exactly when the highest_price_reached stored
\* before the call is at least target_price: the price read does not count.
C15_DeadlineUsesStoredHighest ==
    [][(/\ market.status = "active" /\ market'.status = "resolved"
        /\ now >= market.resolution_date
        /\ market'.round_end_price # None)
          => (market'.winning_outcome = "UP"
                  <=> market.highest_price_reached >= market.target_price)]_vars

\* C16: the stored highest_price_reached is a high-water mark: no step of a
\* sweep, a resolution or a bet placement lowers it.
C16_HighestNeverDecreases ==
    [][market'.highest_price_reached >= market.highest_price_reached]_vars

\* The volume staked on the winning outcome of the stored market.
StoredWinningPool == IF market.winning_outcome = "UP" THEN market.up_volume ELSE market.down_volume

\* x is p / q rounded to the nearest integer (p, q in whole dollars or millionths).
IsRoundedQuotient(x, p, q) ==
    LET d == x * q - p IN 2 * (IF d >= 0 THEN d ELSE -d) <= q

\* C17: parimutuel payout.  With handlers running one after the other, a bet won
\* while the winning pool is positive has actual_payout = (amount / winning_pool)
\* * total_pool with the pools of the market at resolution (10 in a pool of 40
\* with 110 in total gives 27.5), whatever the odds locked at placement; once the
\* call has returned the bet has one completed payout entry of that amount, and
\* the step that credits the bettor adds exactly that amount to the balance.
C17_ParimutuelPayout ==
    /\ [](/\ actual_payout([amount |-> 10 * Unit, potential_payout |-> 0], 40 * Unit, 110 * Unit)
               = 27 * Unit + Unit \div 2
          /\ \A b \in Indices(bets) :
                (bets[b].status = "won" /\ StoredWinningPool > 0)
                    => /\ IsRoundedQuotient(bets[b].actual_payout,
                                            (bets[b].amount \div Unit) * market.total_volume,
                                            StoredWinningPool \div Unit)
                       /\ Quiescent
                            => \E i \in Indices(ledger[bets[b].user]) :
                                  LET e == ledger[bets[b].user][i]
                                  IN  /\ PayoutEntries(b) = {i}
                                      /\ e.amount = bets[b].actual_payout
                                      /\ e.balance_after = e.balance_before + e.amount)
    /\ [][\A r \in Resolvers :
            (res[r].pc = "credit" /\ res'[r].pc = "txn")
                => LET b == Head(res[r].todo)
                   IN  /\ bets[b].status = "won"
                       /\ balance'[bets[b].user] = balance[bets[b].user] + bets[b].actual_payout]_vars

\* A bet was won and paid from the pools at an amount other than its locked
\* potential_payout, and the resolution has returned.
C17_Witness ==
    /\ Quiescent
    /\ \E b \in Indices(bets) :
          /\ bets[b].status = "won" /\ StoredWinningPool > 0
          /\ bets[b].actual_payout # bets[b].potential_payout
          /\ PayoutEntries(b) # {}

\* market.min_bet <= amount <= market.max_bet, the limits being in cents.
within_market_limits(m, amount) ==
    LET cent == Unit \div 100
    IN  /\ m.min_bet * cent <= amount
        /\ \/ amount \div cent < m.max_bet
           \/ amount \div cent = m.max_bet /\ amount % cent = 0

\* C18: every bet that is accepted has an amount within the min_bet and max_bet
\* its market has when the bet is created.
C18_BetWithinMarketLimits ==
    [][Len(bets') > Len(bets) => within_market_limits(market, bets'[Len(bets')].amount)]_vars

\* C19: a bet is created only while the stored market is active and the clock is
\* before its resolution_date, through place_bet as through place_target_bet.
C19_NoBetOnClosedMarket ==
    [][Len(bets') > Len(bets)
          => (market.status = "active" /\ now < market.resolution_date)]_vars

\* C20: no balance update is lost between concurrent bet placements.  With no
\* handler running, each balance is the opening balance (the balance after the
\* opening deposit) plus the amounts of all entries written since, and the
\* stakes debited do not exceed the opening balance.
C20_NoLostBalanceUpdate ==
    Quiescent =>
        \A u \in Users :
            /\ balance[u] = ledger[u][1].balance_after + SumAmounts(Tail(ledger[u]))
            /\ 0 - SumOfType(ledger[u], "bet") <= ledger[u][1].balance_after

\* The sum of the amounts of the regular bets placed on one of a set of outcomes.
StakedOn(outcomes) ==
    SumSeq([b \in Indices(bets) |->
              IF bets[b].bet_type = "regular" /\ bets[b].outcome \in outcomes
              THEN bets[b].amount ELSE 0],
           [b \in Indices(bets) |-> b])

\* C21: concurrent placements lose no pool update.  With no handler running,
\* each outcome's volume is the sum of the amounts of the regular bets placed on
\* it and total_volume is the sum over all of them.
C21_NoLostPoolUpdate ==
    Quiescent =>
        /\ market.up_volume = StakedOn({"UP"})
        /\ market.down_volume = StakedOn({"DOWN"})
        /\ market.flat_volume = StakedOn({"FLAT"})
        /\ market.total_volume = StakedOn(Outcomes)

\* a <= b for two ratios <<num, den>> with positive denominators.
RatioLeq(a, b) == a[1] * b[2] <= b[1] * a[2]

\* C22: odds monotonicity.  When a regular bet on outcome X is placed and its
\* stake is added to the pool, the odds the market offers on X afterwards are not
\* higher than the odds it offered on X before, also when X had no volume.
C22_OddsMonotonicity ==
    [][Len(bets') > Len(bets)
          => LET bet == bets'[Len(bets')]
             IN  (bet.bet_type = "regular" /\ market' = AddVolume(market, bet.outcome, bet.amount))
                    => RatioLeq(market_odds(market', bet.outcome),
                                market_odds(market, bet.outcome))]_vars

\* C23: default split.  A regular bet placed while the market's total_volume is 0
\* locks the odds of an equal split over the three outcomes, 3.0 (odds_at_bet
\* has four decimals).
C23_DefaultSplitOdds ==
    [][(Len(bets') > Len(bets) /\ market.total_volume = 0
        /\ bets'[Len(bets')].bet_type = "regular")
          => bets'[Len(bets')].odds_at_bet = 3 * 10000]_vars

\* The stored volume of an outcome, in whole dollars.
VolumeOf(X) ==
    (IF X = "UP" THEN market.up_volume ELSE IF X = "DOWN" THEN market.down_volume
     ELSE market.flat_volume) \div Unit

\* C24: odds are always defined and within [1, 100].  For every outcome of the
\* stored market the odds are a ratio with a positive denominator between 1 and
\* 100; when the outcome has volume they are total / volume, or 100 when that
\* is larger; and every bet's odds_at_bet (four decimals) is between 1 and 100.
C24_OddsInRange ==
    /\ \A X \in Outcomes :
          LET o == market_odds(market, X)
              T == market.total_volume \div Unit
          IN  /\ o[2] > 0 /\ o[2] <= o[1] /\ o[1] <= MaxOdds * o[2]
              /\ VolumeOf(X) > 0
                    => IF T > MaxOdds * VolumeOf(X) THEN o[1] = MaxOdds * o[2]
                       ELSE o[1] * VolumeOf(X) = o[2] * T
    /\ \A b \in Indices(bets) :
          bets[b].odds_at_bet >= 10000 /\ bets[b].odds_at_bet <= MaxOdds * 10000

\* Bets were placed and an outcome with volume holds less than a hundredth of
\* the pool, so the cap applies to it, while another outcome has no volume.
C24_Witness ==
    /\ bets # <<>>
    /\ \E X \in Outcomes :
          VolumeOf(X) > 0 /\ market.total_volume \div Unit > MaxOdds * VolumeOf(X)
    /\ \E X \in Outcomes : VolumeOf(X) = 0

\* C25: odds_at_bet is immutable.  No step changes the odds_at_bet or the
\* potential_payout of a bet that exists: not another bet, not a sweep, not the
\* resolution that saves the bet as won or lost.
C25_LockedOddsImmutable ==
    [][\A b \in Indices(bets) :
          /\ bets'[b].odds_at_bet = bets[b].odds_at_bet
          /\ bets'[b].potential_payout = bets[b].potential_payout]_vars

\* A bet whose potential_payout is not its amount times its four-decimal
\* odds_at_bet was saved by a resolution, after a second bet was placed.
C25_Witness ==
    /\ Len(bets) = 2
    /\ \E b \in Indices(bets) :
          /\ bets[b].status \in {"won", "lost"}
          /\ bets[b].potential_payout # PotentialPayout(bets[b].amount, <<bets[b].odds_at_bet, 10000>>)

\* C26: a bet locks the odds of the pool immediately before its own stake and
\* raises the pool by exactly its amount, also under concurrency.  In the step
\* that creates a regular bet on outcome X, its odds_at_bet are the odds the
\* stored market offered on X just before the step, and the step raises the
\* stored volume of X and total_volume by the bet's amount and no other volume.
C26_LocksOddsBeforeOwnStake ==
    [][Len(bets') > Len(bets)
          => LET bet == bets'[Len(bets')]
             IN  bet.bet_type = "regular"
                    => /\ bet.odds_at_bet = StoredOdds(market_odds(market, bet.outcome))
                       /\ market' = AddVolume(market, bet.outcome, bet.amount)]_vars

\* C27: a failure on one market does not abort the sweep.  When the monitor
\* job returns, every market that was active when the sweep loaded its queryset
\* has been processed, whichever of them raised an exception.
C27_SweepSurvivesFailure ==
    sweep.pc = "done" => sweep.visited = sweep.loaded

\* A finished sweep in which the first market raised and a later market was
\* resolved.
C27_Witness ==
    /\ sweep.pc = "done"
    /\ 1 \in sweep.raised
    /\ \E i \in sweep.loaded : i > 1 /\ i \notin sweep.raised /\ sweep.rows[i].status = "resolved"

\* C28: the monitor's decision for an active target market.  In the sweep's
\* step for the market: when the deadline has passed, or the price just read
\* has taken highest_price_reached to target_price or above, the sweep goes on
\* to resolve it, and otherwise it leaves status, bets and balances as they
\* were.  In the sweep's resolving step the stored market becomes resolved, and
\* with outcome UP when the price check had found target_price reached.
C28_MonitorDecision ==
    [][res'["monitor"] # res["monitor"]
          => /\ res["monitor"].pc = "monitor"
                  => IF \/ now >= res["monitor"].m.resolution_date
                        \/ market'.highest_price_reached >= market.target_price
                     THEN res'["monitor"].pc = "resolve"
                     ELSE /\ res'["monitor"].pc = "idle"
                          /\ market'.status = market.status
                          /\ bets' = bets /\ balance' = balance
             /\ (res["monitor"].pc = "resolve" /\ market.status = "active")
                  => /\ market'.status = "resolved"
                     /\ market.highest_price_reached >= market.target_price
                            => market'.winning_outcome = "UP"]_vars

\* C29: liveness of the deadline path.  A target market that is active when
\* its resolution_date has passed is eventually resolved with none of its bets
\* still active, while the monitor keeps sweeping, whatever the price feed
\* returns (a price or none) at each read.
C29_DeadlineLiveness ==
    (market.status = "active" /\ now >= market.resolution_date)
        ~> (market.status = "resolved" /\ \A b \in Indices(bets) : bets[b].status # "active")

\* The market was resolved at or after its deadline by a call whose feed read
\* gave no price, and both bets are settled.
C29_Witness ==
    /\ market.status = "resolved" /\ market.resolved_at >= market.resolution_date
    /\ market.round_end_price = None
    /\ Len(bets) = 2 /\ \A b \in Indices(bets) : bets[b].status \in {"won", "lost"}

\* C30: a ledger entry's status advances at most once.  In every step, an entry
\* whose status changes was pending and becomes completed, failed or cancelled;
\* an entry that is completed, failed or cancelled keeps its status, whatever
\* webhook arrives.
C30_StatusAdvancesOnce ==
    [][\A u \in Users : \A i \in Indices(ledger[u]) :
          ledger'[u][i].status # ledger[u][i].status
              => /\ ledger[u][i].status = "pending"
                 /\ ledger'[u][i].status \in {"completed", "failed", "cancelled"}]_vars

\* The amounts of all deposit entries of user u, whatever their status.
DepositedTotal(u) ==
    SumSeq([i \in Indices(ledger[u]) |->
              IF ledger[u][i].type = "deposit" THEN ledger[u][i].amount ELSE 0],
           [i \in Indices(ledger[u]) |-> i])

\* C31: external-trigger idempotency.  Whatever webhooks have been delivered for
\* a payment intent, it has at most one completed ledger entry and it has been
\* credited at most once: where deposits are the only credits, a user's balance
\* is never more than the sum of the amounts of the user's deposit entries.
C31_PaymentCreditedOnce ==
    \A u \in Users :
        /\ \A pid \in 1..(NumUsers + MaxEntries) :
              Cardinality({i \in DepositRows(u, pid) : ledger[u][i].status = "completed"}) <= 1
        /\ balance[u] <= DepositedTotal(u)

\* C32: resolution marks every active bet on a non-winning outcome lost and
\* changes nothing else for it.  A step that takes a bet from active to lost
\* sets its actual_payout to 0, the bet is not on the winning outcome of the
\* resolution doing it, and no balance and no ledger entry changes in that step;
\* and when a resolution that went through its loops returns, no bet on an
\* outcome other than its winning outcome is active.
C32_LosersOnlyMarked ==
    [][/\ \A b \in Indices(bets) :
            (bets[b].status = "active" /\ bets'[b].status = "lost")
                => /\ bets'[b].actual_payout = 0
                   /\ \E r \in Resolvers : /\ res[r].pc = "lose" /\ res'[r] # res[r]
                                            /\ bets[b].outcome # res[r].m.winning_outcome
                   /\ bets'[b].amount = bets[b].amount
                   /\ balance' = balance /\ ledger' = ledger
       /\ \A r \in Resolvers :
            (res[r].pc = "lose" /\ res'[r].pc = "idle")
                => \A b \in Indices(bets) :
                      bets[b].outcome # res[r].m.winning_outcome => bets[b].status # "active"]_vars

\* Both placed bets were on the non-winning outcome and are lost; their owners
\* hold what they held after staking and have no payout entry.
C32_Witness ==
    /\ market.status = "resolved" /\ Quiescent /\ Len(bets) = 2
    /\ \A b \in Indices(bets) :
          /\ bets[b].status = "lost" /\ bets[b].actual_payout = 0
          /\ PayoutEntries(b) = {}

\* C33: a bet changes status exactly once.  In every step, a bet whose status
\* changes was active and becomes won or lost, and a bet that is won, lost or
\* refunded keeps its status and its actual_payout, whatever resolutions and
\* sweeps run afterwards.
C33_BetTerminalOnce ==
    [][\A b \in Indices(bets) :
          /\ bets'[b].status # bets[b].status
                => (bets[b].status = "active" /\ bets'[b].status \in {"won", "lost"})
          /\ bets[b].status \in {"won", "lost", "refunded"}
                => bets'[b].actual_payout = bets[b].actual_payout]_vars

\* C34: every bet's outcome is one of its market's outcome keys.  The bets of a
\* target (YES/NO) market are on UP or DOWN, never on FLAT, whichever view
\* placed them.
C34_BetOutcomeValid ==
    market.market_type = "target"
        => \A b \in Indices(bets) : bets[b].outcome \in {"UP", "DOWN"}

\* C35: the potential_payout fallback is never used to pay a winner.  Whenever
\* a resolution marks a bet won, the winning outcome's volume on the market
\* object it computes the payout from is greater than 0.
C35_WinningPoolPositive ==
    [][\A r \in Resolvers :
          (res[r].pc = "pay" /\ res[r].todo # <<>> /\ res'[r] # res[r])
              => winning_pool(res[r].m) > 0]_vars

\* C36: a bet marked won has its payment.  With no handler running, also after
\* a settlement stopped between two of its steps, every bet with status won has
\* exactly one completed payout entry, for the amount of its actual_payout, and
\* the entry records the credit of that amount to the owner's balance.
C36_WonBetIsPaid ==
    Quiescent =>
        \A b \in Indices(bets) :
            bets[b].status = "won"
                => /\ Cardinality(PayoutEntries(b)) = 1
                   /\ \A i \in PayoutEntries(b) :
                         LET e == ledger[bets[b].user][i]
                         IN  /\ e.amount = bets[b].actual_payout
                             /\ e.balance_after = e.balance_before + e.amount

\* C39: transfer_between_users conserves money.  A step that returns success
\* lowers the sender's balance and raises the recipient's by exactly the
\* amount and appends one completed transfer entry to each side's ledger; a
\* step that returns a rejection or a failure (amount <= 0, insufficient
\* balance before or under the lock, unknown recipient, transfer to oneself,
\* an exception inside the atomic block) changes no balance and no entry.
C39_Succeeded(r) ==
    LET s == req[r].user
        t == req[r].recipient
        a == req[r].amount
    IN  /\ req[r].view = "transfer" /\ req[r].pc = "locked" /\ req'[r].pc = "idle"
        /\ a > 0 /\ s # t /\ balance[s] >= a
        /\ balance' = [balance EXCEPT ![s] = @ - a, ![t] = @ + a]
        /\ ledger' = [ledger EXCEPT
                        ![s] = Append(@, Entry(s, "transfer", -a, balance[s], balance'[s],
                                               "completed", 0, 0)),
                        ![t] = Append(@, Entry(t, "transfer", a, balance[t], balance'[t],
                                               "completed", 0, 0))]

C40_NoCircularWait ==
    \A r, o \in ReqIds : ~CircularWait(r, o)

\* C37: viewing the portfolio never changes the balance of a user whose balance
\* already reconciles with their completed ledger entries, whatever types of
\* entry the ledger holds: in a step that leaves the ledger alone, a balance
\* equal to the sum of the user's completed entries stays as it is.
C37_PortfolioKeepsReconciled ==
    [][\A u \in Users :
          (ledger' = ledger /\ balance[u] = Replayed(u)) => balance'[u] = balance[u]]_vars

\* C38: a withdrawal's debited amount is returned at most once: whatever the
\* order of wallet_withdraw's inline refund, the failure webhook and the admin
\* refund action, no withdrawal has more than one refund entry (each refund
\* entry is written together with one balance credit).
C38_RefundedOnce ==
    \A u \in Users : \A i \in EntriesOfType(u, "withdrawal") :
        Cardinality({j \in EntriesOfType(u, "refund") :
                        ledger[u][j].original_withdrawal = i}) <= 1
====
